---- MODULE Spec2Model ----
(***************************************************************************)
(* Water-level control loop of APIAquaMind: the message router's           *)
(* water-level decoding and classification, the automation engine          *)
(* (persist, decide, act, notify), the command sender and the fallback     *)
(* simulator, as a state machine over the storage tables, the broker       *)
(* transport and the application's client handle.                          *)
(***************************************************************************)
EXTENDS Integers, Sequences, FiniteSets, TLC

\* ---------------------------------------------------------------- bounds
\* Number of handler runs (messages and simulator ticks) explored.
MaxLecturas == 2

\* Number of calls that raise within one handler run.
MaxFallas == 1

\* Number of requests to the command route explored.
MaxComandos == 1

\* _monitor_loop threads started during a behaviour, the one of
\* initialize_mqtt_client included.
MaxHilos == 2

\* Elements of the devices list of one bulk request.
MaxMasivo == 2

\* Sensor distances fed to the router.  For these values and the tank
\* heights below, 100 - ((d / h) * 100) is exact in binary floating point,
\* so integer arithmetic computes what the code computes.
Distancias == {10, 40, 70, 80, 85, 95}

\* Stored values of the configuration AlturaContenedor (0: missing row,
\* the default of .get("valor", 0)).
Alturas == {0, 50, 100}

\* Stored threshold triples <<umbral_alto, umbral_normal, umbral_bajo>>.
Umbrales == {<<80, 50, 20>>, <<60, 30, 40>>, <<50, 50, 50>>, <<20, 50, 80>>}

\* ------------------------------------------------------------- constants
None == "None"

EstadosBajos == {"BAJO", "MUY_BAJO"}

GATE_TOPIC == "control/compuerta"

max_reconnect_attempts == 5

\* ----------------------------------------------------------------- state
VARIABLES
    config,           \* tb_configuraciones: altura, alto, normal, bajo
    niveles,          \* tb_niveles_agua, in insertion (= fecha) order
    nodo_existe,      \* a node with descripcion "Compuerta" exists
    nodo_estatus,     \* id_estatus of that node
    notificaciones,   \* tb_notificaciones, in insertion order
    published,        \* messages handed to the broker transport
    app_mqtt_client,  \* current_app.mqtt_client is set
    is_connected,     \* HiveMQClient.is_connected
    dummy_running,    \* the simulator loop thread was started
    reconnect_attempts, \* HiveMQClient.reconnect_attempts
    n_lecturas,       \* handler runs so far
    ultima,           \* what the most recent handler run did
    anterior,         \* what the handler run before it did
    mqtt_enabled,     \* app.config['MQTT_ENABLED']
    conexion,         \* the broker link of the paho client
    suscripciones,    \* topics handed to client.subscribe so far
    excepcion,        \* the last call of start/stop or callback raised
    n_comandos,       \* requests to the command route so far
    ultimo_cmd,       \* what the most recent command request did
    device_monitor,   \* app.device_monitor is set
    monitoring,       \* DeviceMonitor.monitoring
    monitor_thread,   \* DeviceMonitor.monitor_thread: 0 (None) or a thread
    hilos,            \* each started _monitor_loop thread: "while" (before
                      \* the loop test), "sleep" (in time.sleep), "fin"
    device_states,    \* DeviceMonitor.device_states
    alert_thresholds, \* DeviceMonitor.alert_thresholds
    eventos,          \* tb_eventos, in insertion order
    ultimo_ciclo,     \* what the most recent monitor iteration did
    ultimo_umbral,    \* what the most recent threshold update did
    en_start          \* the threads inside HiveMQClient.start(): loop (the
                      \* network loop thread, from on_disconnect) and the
                      \* _monitor_loop threads, by their index in hilos

vars == <<config, niveles, nodo_existe, nodo_estatus, notificaciones,
          published, app_mqtt_client, is_connected, dummy_running,
          reconnect_attempts, n_lecturas, ultima, anterior,
          mqtt_enabled, conexion, suscripciones, excepcion,
          n_comandos, ultimo_cmd, device_monitor, monitoring,
          monitor_thread, hilos, device_states, alert_thresholds, eventos,
          ultimo_ciclo, ultimo_umbral, en_start>>

\* The state of the device monitor and the calls of start() in progress.
monitor_vars == <<device_monitor, monitoring, monitor_thread, hilos,
                  device_states, alert_thresholds, eventos, ultimo_ciclo,
                  ultimo_umbral, en_start>>

\* ------------------------------------------------------- dictionary reads
\* water_data.get('nivel_estado')
GetNivelEstado(water_data) ==
    IF "nivel_estado" \in DOMAIN water_data THEN water_data.nivel_estado ELSE None

\* water_data.get('desnivel') is False
DesnivelIsFalse(water_data) ==
    "desnivel" \in DOMAIN water_data /\ water_data.desnivel = FALSE

\* str(water_data.get('desnivel', False)), and "None" when the key is absent
DesnivelStr(water_data) ==
    IF "desnivel" \notin DOMAIN water_data THEN None
    ELSE IF water_data.desnivel THEN "True" ELSE "False"

\* ---------------------------------------------------------- classification
\* The percentage taken for the share of the height the distance covers.
Porcentaje_SinRestar(distancia, altura_tanque) == (distancia * 100) \div altura_tanque

\* nivel_agua = 100 - ((distancia / altura_tanque) * 100), altura_tanque # 0
Porcentaje(distancia, altura_tanque) == 100 - ((distancia * 100) \div altura_tanque)

\* Clasificar with the BAJO test ahead of the NORMAL test.
Clasificar_BajoAntes(nivel_agua, umbral_alto, umbral_normal, umbral_bajo, desnivel) ==
    IF desnivel = FALSE
    THEN IF umbral_alto <= nivel_agua THEN "ALTO"
         ELSE IF nivel_agua <= umbral_bajo THEN "BAJO"
         ELSE IF umbral_normal <= nivel_agua THEN "NORMAL"
         ELSE "MUY_BAJO"
    ELSE "LLENO"

\* The if/elif chain of determine_water_level_status.
Clasificar(nivel_agua, umbral_alto, umbral_normal, umbral_bajo, desnivel) ==
    IF desnivel = FALSE
    THEN IF umbral_alto <= nivel_agua THEN "ALTO"
         ELSE IF umbral_normal <= nivel_agua THEN "NORMAL"
         ELSE IF nivel_agua <= umbral_bajo THEN "BAJO"
         ELSE "MUY_BAJO"
    ELSE "LLENO"

\* determine_water_level_status: reads the four configurations on every
\* call; raises (ZeroDivisionError) when the tank height is 0.
determine_water_level_status(distancia, desnivel) ==
    IF config.altura = 0
    THEN [raises |-> TRUE]
    ELSE LET nivel_agua == Porcentaje(distancia, config.altura)
         IN  [raises |-> FALSE,
              nivel_estado |-> Clasificar(nivel_agua, config.alto,
                                          config.normal, config.bajo, desnivel),
              porcentaje_agua |-> nivel_agua]

\* -------------------------------------------------------- command sender
\* str.upper() on the command alphabet used here.
Upper(command) ==
    CASE command = "abrir" -> "ABRIR"
      [] command = "Abrir" -> "ABRIR"
      [] command = "cerrar" -> "CERRAR"
      [] command = "on" -> "ON"
      [] command = "off" -> "OFF"
      [] OTHER -> command

\* MQTTCommandSender.validate_command
validate_command(command) ==
    IF command = "" THEN FALSE
    ELSE Upper(command) \in {"ON", "OFF", "OPEN", "CLOSE"}

\* publish_command without the test of the connected flag.
publish_command_SinBandera(topic, command) ==
    [success |-> TRUE,
     msgs |-> <<[topic |-> topic, payload |-> command]>>]

\* HiveMQClient.publish_command: hands the message to the transport when
\* connected.  The result carries the messages handed over.
publish_command(topic, command) ==
    IF is_connected
    THEN [success |-> TRUE,
          msgs |-> <<[topic |-> topic, payload |-> command]>>]
    ELSE [success |-> FALSE, msgs |-> <<>>]

\* MQTTCommandSender.send_command; mqtt_client is the sender's client
\* attribute (FALSE: not configured).
send_command(mqtt_client, topic, command) ==
    IF ~mqtt_client THEN [success |-> FALSE, msgs |-> <<>>]
    ELSE IF ~is_connected THEN [success |-> FALSE, msgs |-> <<>>]
    ELSE IF ~validate_command(command) THEN [success |-> FALSE, msgs |-> <<>>]
    ELSE publish_command(topic, command)

\* MQTTCommandSender.send_gate_command
send_gate_command(mqtt_client, command) ==
    send_command(mqtt_client, GATE_TOPIC, command)

\* MQTTDataProcessor._send_gate_command.  "current_app" is in env when
\* resolving current_app raises, which the except clause turns into False.
SendGateCommand(command, env) ==
    IF "current_app" \in env THEN [success |-> FALSE, msgs |-> <<>>]
    ELSE IF ~app_mqtt_client THEN [success |-> FALSE, msgs |-> <<>>]
    ELSE send_gate_command(TRUE, command)

\* ------------------------------------------------------------ node status
\* NodoCRUD.actualizar_nodo on the gate node: the new id_estatus.
actualizar_nodo(estatus_actual, status) == status

\* UpdateGateNodeStatus that gives up when no connected client exists.
UpdateGateNodeStatus_SoloConectado(status, estatus_actual, env) ==
    IF ~(app_mqtt_client /\ is_connected)
    THEN [success |-> FALSE, estatus |-> estatus_actual]
    ELSE IF "nodo" \in env THEN [success |-> FALSE, estatus |-> estatus_actual]
    ELSE IF ~nodo_existe THEN [success |-> FALSE, estatus |-> estatus_actual]
    ELSE [success |-> TRUE, estatus |-> actualizar_nodo(estatus_actual, status)]

\* MQTTDataProcessor._update_gate_node_status.  "nodo" \in env: the storage
\* session raises; a missing node gives the 404 dictionary without id_nodo.
UpdateGateNodeStatus(status, estatus_actual, env) ==
    IF "nodo" \in env THEN [success |-> FALSE, estatus |-> estatus_actual]
    ELSE IF ~nodo_existe THEN [success |-> FALSE, estatus |-> estatus_actual]
    ELSE [success |-> TRUE, estatus |-> actualizar_nodo(estatus_actual, status)]

\* ------------------------------------------------------ command dispatcher
\* DEVICE_MAPPING of validate_device_command.
DEVICE_MAPPING ==
    [valve1 |-> [topic |-> "control/valvula1", valid_commands |-> {"ON", "OFF"}],
     valve2 |-> [topic |-> "control/valvula2", valid_commands |-> {"ON", "OFF"}],
     gate   |-> [topic |-> "control/compuerta",
                 valid_commands |-> {"ABRIR", "CERRAR"}],
     relay1 |-> [topic |-> "control/releb1", valid_commands |-> {"ON", "OFF"}],
     relay2 |-> [topic |-> "control/releb2", valid_commands |-> {"ON", "OFF"}]]

\* A JSON value of the request that is not a string (the number 5).
NoTexto == "5 (number)"

\* Values of the request's device key ("": missing or empty) and of its
\* command key ("": missing or empty).
DevicesPedidos == DOMAIN DEVICE_MAPPING \cup {"valve9", ""}

ComandosPedidos ==
    {"ON", "OFF", "ABRIR", "CERRAR", "OPEN", "on", "Abrir", "", NoTexto}

\* validate_device_command.  command.upper() raises AttributeError for a
\* command that is not a string.
validate_device_command(device, command) ==
    IF device \notin DOMAIN DEVICE_MAPPING
    THEN [raises |-> FALSE, valid |-> FALSE, topic |-> ""]
    ELSE IF command = NoTexto
    THEN [raises |-> TRUE, valid |-> FALSE, topic |-> ""]
    ELSE IF Upper(command) \notin DEVICE_MAPPING[device].valid_commands
    THEN [raises |-> FALSE, valid |-> FALSE, topic |-> ""]
    ELSE [raises |-> FALSE, valid |-> TRUE,
          topic |-> DEVICE_MAPPING[device].topic]

\* actualizar_estatus_nodo of the command route, for the gate node (the
\* nodes of the other devices are not part of the state): the id_estatus
\* of the gate node after the call.  falla: the storage session raises.
actualizar_estatus_nodo(device, command, estatus_actual, falla) ==
    IF device # "gate" \/ falla \/ ~nodo_existe THEN estatus_actual
    ELSE IF Upper(command) = "ABRIR" THEN 1
    ELSE IF Upper(command) = "CERRAR" THEN 0
    ELSE estatus_actual

\* handle_single_command, with the sender's client set from
\* current_app.mqtt_client by control_devices.  raised: an exception left
\* handle_single_command (control_devices answers 500 for it).
handle_single_command(device, command, falla) ==
    LET nada == [raised |-> FALSE, send_llamado |-> FALSE, success |-> FALSE,
                 msgs |-> <<>>, estatus |-> nodo_estatus, topic |-> ""]
        v == validate_device_command(device, command)
        s == send_command(app_mqtt_client, v.topic, command)
    IN  IF device = "" THEN nada @@ [status |-> 400]
        ELSE IF command = "" THEN nada @@ [status |-> 400]
        ELSE IF v.raises THEN [nada EXCEPT !.raised = TRUE] @@ [status |-> 500]
        ELSE IF ~v.valid THEN nada @@ [status |-> 400]
        ELSE [raised |-> FALSE, send_llamado |-> TRUE, success |-> s.success,
              msgs |-> s.msgs,
              estatus |-> actualizar_estatus_nodo(device, command,
                                                  nodo_estatus, falla),
              topic |-> v.topic,
              status |-> IF s.success THEN 200 ELSE 500]

\* ----------------------------------------------------------- notifications
\* NotificacionCRUD.crear_notificacion: appends the row, or rolls back and
\* returns 500 when the session raises ("notif" \in env).
crear_notificacion(notificacion_data, tabla, env) ==
    IF "notif" \in env THEN tabla ELSE Append(tabla, notificacion_data)

\* --------------------------------------------------------------- sessions
\* A session released on the success path only.
session_close_SoloExito(salida) == salida = "ok"

\* "finally: session.close()" of the storage operations: whether the
\* session got from get_session is released when the operation leaves
\* through salida ("ok", "404" for a row not found, "excepcion").
session_close(salida) == TRUE

\* The sessions left open by operations that left through salidas.
Abiertas(salidas) ==
    Cardinality({i \in DOMAIN salidas : ~session_close(salidas[i])})

\* The exit path of obtener_ultimo_nivel_agua.
SalidaUltimo(tabla, env) ==
    IF "ultimo" \in env THEN "excepcion"
    ELSE IF Len(tabla) > 0 THEN "ok" ELSE "404"

\* The exit path of crear_nivel_agua.
SalidaCrear(env) == IF "crear" \in env THEN "excepcion" ELSE "ok"

\* The exit paths of the storage operations of _update_gate_node_status:
\* obtener_nodo_por_descripcion, then actualizar_nodo for a node found.
SalidasNodo(env) ==
    IF "nodo" \in env THEN <<"excepcion">>
    ELSE IF ~nodo_existe THEN <<"404">>
    ELSE <<"ok", "ok">>

\* The exit path of crear_notificacion.
SalidaNotif(env) == IF "notif" \in env THEN "excepcion" ELSE "ok"

\* ------------------------------------------------------ automation engine
\* last_nivel_data[0].get('data', {}).get('nivel_estado'), None for a
\* missing tuple (modelled as the empty function) or a missing key.
NoData == <<>>

UltimoEstado(last_nivel_data) ==
    IF "data" \in DOMAIN last_nivel_data
    THEN IF "nivel_estado" \in DOMAIN last_nivel_data.data
         THEN last_nivel_data.data.nivel_estado ELSE None
    ELSE None

\* Rama with the close branch taken for every state that is not low.
Rama_SinDesnivel(water_data) ==
    IF GetNivelEstado(water_data) \in EstadosBajos THEN "abrir" ELSE "cerrar"

\* Rama with the open branch taken for BAJO only.
Rama_SoloBajo(water_data) ==
    IF GetNivelEstado(water_data) = "BAJO" THEN "abrir"
    ELSE IF DesnivelIsFalse(water_data) THEN "cerrar"
    ELSE "nada"

\* Which branch of actions_for_water_level_data runs.
Rama(water_data) ==
    IF GetNivelEstado(water_data) \in EstadosBajos THEN "abrir"
    ELSE IF DesnivelIsFalse(water_data) THEN "cerrar"
    ELSE "nada"

\* DebeNotificar without the comparison of states.
DebeNotificar_Siempre(last_nivel_estado, current_nivel_estado) == TRUE

\* "Generar notificación solo si el estado cambió o es la primera vez"
DebeNotificar(last_nivel_estado, current_nivel_estado) ==
    last_nivel_estado # current_nivel_estado \/ last_nivel_estado = None

\* The notification row of a branch.
NotificacionData(rama, water_data) ==
    LET base == IF rama = "abrir"
                THEN [notificacion |-> "Nivel de agua bajo",
                      mensaje |-> "Compuerta abierta por nivel de agua bajo"]
                ELSE [notificacion |-> "Nivel de agua alto",
                      mensaje |-> "Compuerta cerrada por nivel de agua alto"]
    IN  IF "porcentaje_agua" \in DOMAIN water_data
        THEN base @@ [porcentaje |-> water_data.porcentaje_agua]
        ELSE base

\* MQTTDataProcessor.actions_for_water_level_data.  r is the run so far:
\* the storage tables and the transport as the running handler has left
\* them, the log of its calls and the calls that raised; the result is r
\* after the call.
actions_for_water_level_data(water_data, last_nivel_data, r, env) ==
    LET rama == Rama(water_data)
        command == IF rama = "abrir" THEN "ABRIR" ELSE "CERRAR"
        status == IF rama = "abrir" THEN 1 ELSE 0
        mqtt == SendGateCommand(command, env)
        db == UpdateGateNodeStatus(status, r.nodo_estatus, env)
        last_nivel_estado == UltimoEstado(last_nivel_data)
        current_nivel_estado == GetNivelEstado(water_data)
        notifica == DebeNotificar(last_nivel_estado, current_nivel_estado)
        tabla == IF notifica
                 THEN crear_notificacion(NotificacionData(rama, water_data),
                                         r.notificaciones, env)
                 ELSE r.notificaciones
        llamada == [nivel_estado |-> current_nivel_estado,
                    desnivel |-> DesnivelStr(water_data),
                    last_nivel_estado |-> last_nivel_estado]
    IN  IF rama = "nada"
        THEN [r EXCEPT !.llamadas = Append(@,
                 llamada @@ [cmds |-> <<>>, nodos |-> <<>>,
                             mqtt_success |-> FALSE, db_success |-> FALSE,
                             notif_intentos |-> 0, notif_creadas |-> 0])]
        ELSE [r EXCEPT
                 !.sesiones_al_publicar = r.sesiones,
                 !.sesiones = @ + Abiertas(SalidasNodo(env))
                                + (IF notifica
                                   THEN Abiertas(<<SalidaNotif(env)>>) ELSE 0),
                 !.nodo_estatus = db.estatus,
                 !.notificaciones = tabla,
                 !.published = @ \o mqtt.msgs,
                 !.fallas = @ \cup (env \cap {"current_app", "nodo"})
                              \cup (IF notifica THEN env \cap {"notif"} ELSE {}),
                 !.llamadas = Append(@,
                     llamada @@ [cmds |-> <<command>>, nodos |-> <<status>>,
                                 mqtt_success |-> mqtt.success,
                                 db_success |-> db.success,
                                 notif_intentos |-> IF notifica THEN 1 ELSE 0,
                                 notif_creadas |->
                                     Len(tabla) - Len(r.notificaciones)])]

\* NivelAguaCRUD.obtener_ultimo_nivel_agua: the row with the greatest fecha,
\* which is the last one inserted since fecha is the insertion time.
obtener_ultimo_nivel_agua(tabla, env) ==
    IF "ultimo" \in env THEN [status |-> 500]
    ELSE IF Len(tabla) > 0
         THEN [status |-> 200, data |-> tabla[Len(tabla)]]
         ELSE [status |-> 404]

\* NivelAguaCRUD.crear_nivel_agua: inserts the row and returns 201, or rolls
\* back and returns 500 when the session raises ("crear" \in env).
crear_nivel_agua(nivel_data, tabla, env) ==
    IF "crear" \in env
    THEN [status |-> 500, tabla |-> tabla]
    ELSE [status |-> 201, tabla |-> Append(tabla, nivel_data)]

\* The row save_water_level_data prepares for tb_niveles_agua.
NivelData(water_data) ==
    LET base == [distancia |-> water_data.distancia,
                 desnivel |-> DesnivelStr(water_data),
                 nivel_estado |-> water_data.nivel_estado]
    IN  IF "porcentaje_agua" \in DOMAIN water_data
        THEN base @@ [porcentaje_agua |-> water_data.porcentaje_agua]
        ELSE base

\* save_water_level_data with the query for the last reading made after the
\* insert of the new one.
save_water_level_data_ConsultaDespues(water_data, r, env) ==
    LET creado == crear_nivel_agua(NivelData(water_data), r.niveles, env)
        last_nivel_data == obtener_ultimo_nivel_agua(creado.tabla, env)
        r1 == [r EXCEPT !.niveles = creado.tabla,
                        !.persistidos = @ + (Len(creado.tabla) - Len(r.niveles)),
                        !.ultimo_status = last_nivel_data.status,
                        !.crear_status = creado.status,
                        !.sesiones = @ + Abiertas(<<SalidaCrear(env),
                                          SalidaUltimo(creado.tabla, env)>>),
                        !.fallas = @ \cup (env \cap {"ultimo", "crear"})]
    IN  IF creado.status = 201
        THEN actions_for_water_level_data(water_data, last_nivel_data, r1, env)
        ELSE r1

\* MQTTDataProcessor.save_water_level_data
save_water_level_data(water_data, r, env) ==
    LET last_nivel_data == obtener_ultimo_nivel_agua(r.niveles, env)
        creado == crear_nivel_agua(NivelData(water_data), r.niveles, env)
        r1 == [r EXCEPT !.niveles = creado.tabla,
                        !.persistidos = @ + (Len(creado.tabla) - Len(r.niveles)),
                        !.ultimo_status = last_nivel_data.status,
                        !.crear_status = creado.status,
                        !.sesiones = @ + Abiertas(<<SalidaUltimo(r.niveles, env),
                                                    SalidaCrear(env)>>),
                        !.fallas = @ \cup (env \cap {"ultimo", "crear"})]
    IN  IF creado.status = 201
        THEN actions_for_water_level_data(water_data, last_nivel_data, r1, env)
        ELSE r1

\* The run record at the start of a handler.
Inicio(fuente) ==
    [fuente |-> fuente,
     fallas |-> {},
     niveles |-> niveles,
     nodo_estatus |-> nodo_estatus,
     notificaciones |-> notificaciones,
     published |-> published,
     llamadas |-> <<>>,
     persistidos |-> 0,
     ultimo_status |-> 0,
     crear_status |-> 0,
     previo |-> IF Len(niveles) > 0 THEN niveles[Len(niveles)].nivel_estado
                ELSE None,
     notif_antes |-> Len(notificaciones),
     pub_antes |-> Len(published),
     nodo_antes |-> nodo_estatus,
     conectado |-> app_mqtt_client /\ is_connected,
     topic |-> None,
     payload |-> None,
     flow_value |-> -1,
     eventos |-> eventos,
     sesiones |-> 0,
     sesiones_al_publicar |-> -1]

\* Commit a finished run to the state.
Termina(r, lectura) ==
    /\ niveles' = r.niveles
    /\ nodo_estatus' = r.nodo_estatus
    /\ notificaciones' = r.notificaciones
    /\ published' = r.published
    /\ eventos' = r.eventos
    /\ n_lecturas' = n_lecturas + 1
    /\ anterior' = [fuente |-> ultima.fuente,
                    fallas |-> ultima.fallas,
                    persistidos |-> ultima.persistidos,
                    llamadas |-> ultima.llamadas,
                    notif_antes |-> ultima.notif_antes]
    /\ ultima' = [fuente |-> r.fuente,
                  fallas |-> r.fallas,
                  lectura |-> lectura,
                  llamadas |-> r.llamadas,
                  persistidos |-> r.persistidos,
                  ultimo_status |-> r.ultimo_status,
                  crear_status |-> r.crear_status,
                  previo |-> r.previo,
                  notif_antes |-> r.notif_antes,
                  pub_antes |-> r.pub_antes,
                  nodo_antes |-> r.nodo_antes,
                  conectado |-> r.conectado,
                  topic |-> r.topic,
                  payload |-> r.payload,
                  flow_value |-> r.flow_value,
                  eventos_antes |-> Len(eventos),
                  sesiones |-> r.sesiones,
                  sesiones_al_publicar |-> r.sesiones_al_publicar]
    /\ UNCHANGED <<en_start, device_monitor, monitoring, monitor_thread, hilos,
                   device_states, alert_thresholds, ultimo_ciclo,
                   ultimo_umbral>>
    /\ UNCHANGED <<config, nodo_existe, app_mqtt_client, is_connected,
                   dummy_running, reconnect_attempts, mqtt_enabled, conexion,
                   suscripciones, excepcion, n_comandos, ultimo_cmd>>

\* The calls of one handler run that raise: resolving current_app, the node
\* lookup or update, the notification insert, the last-reading query, the
\* reading insert.
Fallas == {"current_app", "nodo", "notif", "ultimo", "crear"}

Entornos == {env \in SUBSET Fallas : Cardinality(env) <= MaxFallas}

\* ---------------------------------------------------------- event storage
\* The columns of tb_eventos.
ColumnasEvento ==
    {"id_evento", "id_nodo", "fecha_evento", "id_estatus", "consumo",
     "unidad_medida"}

\* EventosCRUD.crear_evento: omits the row and returns 200 when the consumo
\* of the event is missing or 0; otherwise builds TbEvento(**evento_data),
\* which raises on a key that is no column, and inserts it.
crear_evento(evento_data, tabla) ==
    IF "consumo" \notin DOMAIN evento_data \/ evento_data.consumo = 0
    THEN [raises |-> FALSE, status |-> 200, tabla |-> tabla]
    ELSE IF ~(DOMAIN evento_data \subseteq ColumnasEvento)
    THEN [raises |-> TRUE, status |-> 500, tabla |-> tabla]
    ELSE [raises |-> FALSE, status |-> 200, tabla |-> Append(tabla, evento_data)]

\* --------------------------------------------------------- message router
\* Payloads of sensor/nivelAgua: empty, not JSON, or a JSON object whose
\* distancia and desnivel keys are present with the right type or not.
PayloadsNivelAgua ==
    {[tipo |-> "vacio"], [tipo |-> "invalido"], [tipo |-> "json"]}
    \cup {[tipo |-> "json", distancia |-> d, desnivel |-> b] :
              d \in Distancias, b \in BOOLEAN}
    \cup {[tipo |-> "json", distancia |-> d] : d \in Distancias}
    \cup {[tipo |-> "json", desnivel |-> b] : b \in BOOLEAN}

\* A decoding that goes on with the defaults when the payload is empty or
\* no JSON.
DecodeWaterLevel_SinDescartar(payload) ==
    LET distancia == IF "distancia" \in DOMAIN payload
                     THEN payload.distancia ELSE 0
        desnivel == IF "desnivel" \in DOMAIN payload
                    THEN payload.desnivel ELSE FALSE
        estado == determine_water_level_status(distancia, desnivel)
    IN  IF estado.raises
        THEN [clasificada |-> FALSE]
        ELSE [clasificada |-> TRUE,
              distancia |-> distancia,
              desnivel |-> desnivel,
              nivel_estado |-> estado.nivel_estado,
              porcentaje_agua |-> estado.porcentaje_agua]

\* The decoding of handle_water_level: defaults for keys that are missing
\* or of the wrong type, then determine_water_level_status.
DecodeWaterLevel(payload) ==
    LET distancia == IF "distancia" \in DOMAIN payload
                     THEN payload.distancia ELSE 0
        desnivel == IF "desnivel" \in DOMAIN payload
                    THEN payload.desnivel ELSE FALSE
        estado == determine_water_level_status(distancia, desnivel)
    IN  IF payload.tipo # "json" \/ estado.raises
        THEN [clasificada |-> FALSE]
        ELSE [clasificada |-> TRUE,
              distancia |-> distancia,
              desnivel |-> desnivel,
              nivel_estado |-> estado.nivel_estado,
              porcentaje_agua |-> estado.porcentaje_agua]

\* MQTTMessageHandler.handle_water_level
handle_water_level(payload, r, env) ==
    LET water_data == DecodeWaterLevel(payload)
    IN  IF water_data.clasificada
        THEN save_water_level_data(water_data, r, env)
        ELSE r

\* Payloads of sensor/flujo.
PayloadsFlujo == {"", "abc", "12"}

\* A conversion that takes a payload that is no number for a flow of 12.
FlowValue_SinDegradar(payload) == IF payload = "" THEN 0 ELSE 12

\* "float(payload) if payload else 0.0", and 0.0 when float raises
\* ValueError or TypeError.
FlowValue(payload) == IF payload = "12" THEN 12 ELSE 0

\* save_flow_data whose event dictionary carries desnivel = False.
save_flow_data_ConDesnivel(flow_value, r, env) ==
    LET evento_data == [id_nodo |-> 1, id_estatus |-> 1,
                        consumo |-> flow_value, unidad_medida |-> "L/min",
                        desnivel |-> FALSE]
    IN  actions_for_water_level_data(evento_data, NoData, r, env)

\* MQTTDataProcessor.save_flow_data: hands the event dictionary to
\* actions_for_water_level_data with no previous reading.
save_flow_data(flow_value, r, env) ==
    LET evento_data == [id_nodo |-> 1, id_estatus |-> 1,
                        consumo |-> flow_value, unidad_medida |-> "L/min"]
    IN  actions_for_water_level_data(evento_data, NoData, r, env)

\* MQTTMessageHandler.handle_flow_sensor
handle_flow_sensor(payload, r, env) ==
    LET flow_value == FlowValue(payload)
    IN  save_flow_data(flow_value, [r EXCEPT !.flow_value = flow_value], env)

\* Payloads of the status topics.
PayloadsEstado == {"", "ON", "on", "OPEN"}

\* The valid_states of each status handler; handle_system_status keeps
\* whatever it is sent.
EstadosValidos(tipo) ==
    IF tipo = "handle_valve_status"
    THEN {"ON", "OFF", "OPEN", "CLOSE", "UNKNOWN"}
    ELSE IF tipo = "handle_gate_status" THEN {"OPEN", "CLOSE", "UNKNOWN"}
    ELSE IF tipo = "handle_relay_status" THEN {"ON", "OFF", "UNKNOWN"}
    ELSE PayloadsEstado \cup {"unknown"}

\* handle_status that publishes the normalised state back on the topic.
handle_status_Reenvia(tipo, payload, r) ==
    LET status == IF tipo = "handle_system_status"
                  THEN IF payload = "" THEN "unknown" ELSE payload
                  ELSE IF payload = "" THEN "UNKNOWN"
                  ELSE IF Upper(payload) \in EstadosValidos(tipo)
                  THEN Upper(payload)
                  ELSE "UNKNOWN"
        evento_data == [tipo |-> tipo,
                        descripcion |-> status,
                        fecha_evento |-> "now",
                        datos_adicionales |-> status]
    IN  [r EXCEPT !.eventos = crear_evento(evento_data, @).tabla,
                  !.published = Append(@, [topic |-> r.topic,
                                           payload |-> status])]

\* handle_system_status, handle_valve_status, handle_gate_status and
\* handle_relay_status with save_system_status, save_valve_status,
\* save_gate_status and save_relay_status: each normalises the payload and
\* hands crear_evento an event that describes it, with no consumo.
handle_status(tipo, payload, r) ==
    LET status == IF tipo = "handle_system_status"
                  THEN IF payload = "" THEN "unknown" ELSE payload
                  ELSE IF payload = "" THEN "UNKNOWN"
                  ELSE IF Upper(payload) \in EstadosValidos(tipo)
                  THEN Upper(payload)
                  ELSE "UNKNOWN"
        evento_data == [tipo |-> tipo,
                        descripcion |-> status,
                        fecha_evento |-> "now",
                        datos_adicionales |-> status]
    IN  [r EXCEPT !.eventos = crear_evento(evento_data, @).tabla]

\* The topics process_message dispatches on.
TopicosRouter ==
    {"status/sistema", "sensor/flujo", "sensor/nivelAgua", "control/valvula1",
     "control/valvula2", "control/compuerta", "control/releb1",
     "control/releb2"}

\* Topics process_message is called with besides the two sensor topics: a
\* valve the registry does not know, and topics no branch matches.
TopicosOtros ==
    (TopicosRouter \ {"sensor/flujo", "sensor/nivelAgua"})
        \cup {"control/valvula9", "otro/tema", ""}

\* The branch of process_message a topic takes; the valve and relay
\* branches match by prefix.
Manejador(topic) ==
    IF topic = "status/sistema" THEN "handle_system_status"
    ELSE IF topic = "sensor/flujo" THEN "handle_flow_sensor"
    ELSE IF topic = "sensor/nivelAgua" THEN "handle_water_level"
    ELSE IF topic \in {"control/valvula1", "control/valvula2",
                       "control/valvula9"} THEN "handle_valve_status"
    ELSE IF topic = "control/compuerta" THEN "handle_gate_status"
    ELSE IF topic \in {"control/releb1", "control/releb2"}
         THEN "handle_relay_status"
    ELSE "no reconocido"

\* MQTTMessageHandler.process_message: the run after the handler of the
\* topic; a topic that no branch matches is logged.  The run keeps the
\* payload, and of a water-level payload its kind.
process_message(topic, payload, r, env) ==
    LET m == Manejador(topic)
        r0 == [r EXCEPT !.topic = topic]
    IN  IF m = "handle_water_level"
        THEN handle_water_level(payload,
                                [r0 EXCEPT !.payload = payload.tipo], env)
        ELSE IF m = "handle_flow_sensor"
        THEN handle_flow_sensor(payload, [r0 EXCEPT !.payload = payload], env)
        ELSE IF m = "no reconocido" THEN [r0 EXCEPT !.payload = payload]
        ELSE handle_status(m, payload, [r0 EXCEPT !.payload = payload])

\* process_message on topic sensor/nivelAgua
HandleWaterLevel ==
    /\ app_mqtt_client
    /\ n_lecturas < MaxLecturas
    /\ \E payload \in PayloadsNivelAgua, env \in Entornos :
          Termina(process_message("sensor/nivelAgua", payload,
                                  Inicio("mqtt"), env),
                  DecodeWaterLevel(payload))

\* process_message on topic sensor/flujo
HandleFlowSensor ==
    /\ app_mqtt_client
    /\ n_lecturas < MaxLecturas
    /\ \E payload \in PayloadsFlujo, env \in Entornos :
          Termina(process_message("sensor/flujo", payload,
                                  Inicio("flujo"), env),
                  [clasificada |-> FALSE])

\* process_message on any other topic
HandleOtherTopic ==
    /\ app_mqtt_client
    /\ n_lecturas < MaxLecturas
    /\ \E topic \in TopicosOtros, payload \in PayloadsEstado :
          Termina(process_message(topic, payload, Inicio("otro"), {}),
                  [clasificada |-> FALSE])

\* ------------------------------------------------------ fallback simulator
\* The five scenarios of generate_dummy_water_level_data, one distance of
\* each scenario's range.
Escenarios ==
    {[clasificada |-> TRUE, distancia |-> 90, desnivel |-> TRUE,
      nivel_estado |-> "CRITICO"],
     [clasificada |-> TRUE, distancia |-> 70, desnivel |-> FALSE,
      nivel_estado |-> "ALTO"],
     [clasificada |-> TRUE, distancia |-> 50, desnivel |-> FALSE,
      nivel_estado |-> "NORMAL"],
     [clasificada |-> TRUE, distancia |-> 30, desnivel |-> FALSE,
      nivel_estado |-> "BAJO"],
     [clasificada |-> TRUE, distancia |-> 15, desnivel |-> FALSE,
      nivel_estado |-> "MUY_BAJO"]}

\* MQTTDataProcessor.process_dummy_water_level_data: saves the reading and
\* then runs the actions again with no previous reading.  Nothing happens
\* when resolving current_app raises or a client is available.
process_dummy_water_level_data(dummy_data, r, env, env2) ==
    IF "current_app" \in env
    THEN [r EXCEPT !.fallas = {"current_app"}]
    ELSE IF app_mqtt_client
    THEN r
    ELSE actions_for_water_level_data(dummy_data, NoData,
             save_water_level_data(dummy_data, r, env), env2)

\* A loop test that never sees the client.
MqttDisponible_Nunca == FALSE

\* The test at the top of each iteration of generate_dummy_data_loop:
\* hasattr(app, 'mqtt_client') and app.mqtt_client
MqttDisponible == app_mqtt_client

\* One iteration of generate_dummy_data_loop: leaves the loop when the
\* application holds a client, and otherwise processes a reading.
DummyTick ==
    /\ dummy_running
    /\ IF MqttDisponible
       THEN /\ dummy_running' = FALSE
            /\ UNCHANGED <<monitor_vars, config, niveles, nodo_existe, nodo_estatus,
                           notificaciones, published, app_mqtt_client,
                           is_connected, reconnect_attempts, n_lecturas,
                           ultima, anterior, mqtt_enabled, conexion,
                           suscripciones, excepcion, n_comandos, ultimo_cmd>>
       ELSE /\ n_lecturas < MaxLecturas
            /\ \E dummy_data \in Escenarios, env \in Entornos,
                  env2 \in SUBSET {"nodo", "notif"} :
                  /\ Cardinality(env2) <= MaxFallas
                  /\ Termina(process_dummy_water_level_data(dummy_data,
                                 Inicio("dummy"), env, env2),
                             dummy_data)

\* A client is stored in app.mqtt_client after initialization left none.
AsignaCliente ==
    /\ ~app_mqtt_client
    /\ app_mqtt_client' = TRUE
    /\ UNCHANGED <<monitor_vars, config, niveles, nodo_existe, nodo_estatus, notificaciones,
                   published, is_connected, dummy_running, reconnect_attempts,
                   n_lecturas, ultima, anterior, mqtt_enabled, conexion,
                   suscripciones, excepcion, n_comandos, ultimo_cmd>>

\* -------------------------------------------------------- ingestion client
\* The broker link as the paho client sees it: "cerrada" (no socket),
\* "pendiente" (connect() returned, no CONNACK yet), "abierta" (CONNACK 0),
\* "rechazada" (CONNACK with an error code), "cerrando" (disconnect() was
\* called and the callback of the closed socket is still due).  A link is
\* opened by a call of client.connect only.
Conexiones == {"cerrada", "pendiente", "abierta", "rechazada", "cerrando"}

\* The topics of subscribe_to_topics.
TopicosSuscritos ==
    {"status/sistema", "sensor/flujo", "control/valvula1", "control/valvula2",
     "control/compuerta", "control/releb1", "control/releb2"}

\* HiveMQClient.subscribe_to_topics
subscribe_to_topics(suscritos) == suscritos \cup TopicosSuscritos

\* HiveMQClient.start: configures the client, calls client.connect and
\* client.loop_start whatever the connected flag is, and re-raises what
\* they raise (falla: client.connect raises).  The result is the link and
\* whether start raised.
start(falla) ==
    IF falla THEN [conexion |-> "cerrada", excepcion |-> TRUE]
    ELSE [conexion |-> "pendiente", excepcion |-> FALSE]

\* The call of start() by initialize_mqtt_client's thread, by the device
\* monitor or by any other caller.
Start ==
    /\ app_mqtt_client
    /\ \E falla \in BOOLEAN :
          /\ conexion' = start(falla).conexion
          /\ excepcion' = start(falla).excepcion
    /\ UNCHANGED <<monitor_vars, config, niveles, nodo_existe, nodo_estatus, notificaciones,
                   published, app_mqtt_client, is_connected, dummy_running,
                   reconnect_attempts, n_lecturas, ultima, anterior,
                   mqtt_enabled, suscripciones, n_comandos, ultimo_cmd>>

\* stop that leaves the connected flag as it is.
stop_SinBandera(enlace, conectado, cierre) ==
    [is_connected |-> conectado,
     conexion |-> IF enlace = "cerrada" THEN "cerrada" ELSE cierre,
     excepcion |-> FALSE]

\* HiveMQClient.stop: loop_stop, disconnect, is_connected = False, inside
\* a try whose except clause only logs.  cierre: whether the callback of
\* the closed socket is still delivered ("cerrando") or not ("cerrada").
stop(enlace, conectado, cierre) ==
    [is_connected |-> FALSE,
     conexion |-> IF enlace = "cerrada" THEN "cerrada" ELSE cierre,
     excepcion |-> FALSE]

\* A call of stop().
Stop ==
    /\ app_mqtt_client
    /\ \E cierre \in {"cerrando", "cerrada"} :
          LET res == stop(conexion, is_connected, cierre)
          IN  /\ is_connected' = res.is_connected
              /\ conexion' = res.conexion
              /\ excepcion' = res.excepcion
    /\ UNCHANGED <<monitor_vars, config, niveles, nodo_existe, nodo_estatus, notificaciones,
                   published, app_mqtt_client, dummy_running,
                   reconnect_attempts, n_lecturas, ultima, anterior,
                   mqtt_enabled, suscripciones, n_comandos, ultimo_cmd>>

\* HiveMQClient.on_connect, called with the CONNACK of a pending link.
OnConnect ==
    /\ app_mqtt_client
    /\ conexion = "pendiente"
    /\ \E rc \in {0, 5} :
          IF rc = 0
          THEN /\ is_connected' = TRUE
               /\ reconnect_attempts' = 0
               /\ suscripciones' = subscribe_to_topics(suscripciones)
               /\ conexion' = "abierta"
          ELSE /\ is_connected' = FALSE
               /\ conexion' = "rechazada"
               /\ UNCHANGED <<reconnect_attempts, suscripciones>>
    /\ excepcion' = FALSE
    /\ UNCHANGED <<monitor_vars, config, niveles, nodo_existe, nodo_estatus, notificaciones,
                   published, app_mqtt_client, dummy_running, n_lecturas,
                   ultima, anterior, mqtt_enabled, n_comandos, ultimo_cmd>>

\* The reconnection test without the bound on the attempts.
DebeReconectar_SinLimite(rc, attempts) == rc # 0

\* "if rc != 0 and self.reconnect_attempts < self.max_reconnect_attempts"
DebeReconectar(rc, attempts) ==
    rc # 0 /\ attempts < max_reconnect_attempts

\* HiveMQClient.on_disconnect, called when the socket of a link closes:
\* with rc 0 after disconnect(), with an error code otherwise.
OnDisconnect ==
    /\ app_mqtt_client
    /\ conexion # "cerrada"
    /\ \E rc \in {0, 7}, falla \in BOOLEAN :
          /\ rc = 0 <=> conexion = "cerrando"
          /\ is_connected' = FALSE
          /\ IF DebeReconectar(rc, reconnect_attempts)
             THEN /\ reconnect_attempts' = reconnect_attempts + 1
                  /\ conexion' = start(falla).conexion
                  /\ excepcion' = start(falla).excepcion
             ELSE /\ conexion' = "cerrada"
                  /\ excepcion' = FALSE
                  /\ UNCHANGED reconnect_attempts
    /\ UNCHANGED <<monitor_vars, config, niveles, nodo_existe, nodo_estatus, notificaciones,
                   published, app_mqtt_client, dummy_running, n_lecturas,
                   ultima, anterior, mqtt_enabled, suscripciones, n_comandos,
                   ultimo_cmd>>

\* -------------------------------------------------------- command route
\* POST /mqtt/control with a single command.
ControlDevices ==
    /\ n_comandos < MaxComandos
    /\ \E device \in DevicesPedidos, command \in ComandosPedidos,
          falla \in BOOLEAN :
          LET res == handle_single_command(device, command, falla)
          IN  /\ published' = published \o res.msgs
              /\ nodo_estatus' = res.estatus
              /\ ultimo_cmd' = [device |-> device,
                                command |-> command,
                                status |-> res.status,
                                raised |-> res.raised,
                                send_llamado |-> res.send_llamado,
                                success |-> res.success,
                                topic |-> res.topic,
                                cliente |-> app_mqtt_client,
                                conectado |-> is_connected,
                                pub_antes |-> Len(published),
                                nodo_antes |-> nodo_estatus,
                                masivo |-> FALSE]
    /\ n_comandos' = n_comandos + 1
    /\ UNCHANGED <<monitor_vars, config, niveles, nodo_existe, notificaciones,
                   app_mqtt_client, is_connected, dummy_running,
                   reconnect_attempts, n_lecturas, ultima, anterior,
                   mqtt_enabled, conexion, suscripciones, excepcion>>

\* The elements of the devices list of a bulk request: valid pairs for the
\* gate and a valve, a command the device does not take, an unknown device,
\* a missing device, and a command that is not a string.
PedidosMasivos ==
    {[device |-> "gate", command |-> "ABRIR"],
     [device |-> "gate", command |-> "CERRAR"],
     [device |-> "gate", command |-> "Abrir"],
     [device |-> "valve1", command |-> "ON"],
     [device |-> "valve1", command |-> "ABRIR"],
     [device |-> "valve9", command |-> "ON"],
     [device |-> "", command |-> "ON"],
     [device |-> "gate", command |-> NoTexto]}

\* The devices lists of a bulk request, the empty list included.
ListasMasivas ==
    UNION {[1..n -> PedidosMasivos] : n \in 0..MaxMasivo}

\* The loop of handle_bulk_commands from element i on.  acc: the messages
\* handed to the transport and the results so far; an exception of
\* validate_device_command leaves the loop.
RECURSIVE BucleMasivo(_, _, _)
BucleMasivo(devices_data, i, acc) ==
    IF i > Len(devices_data) THEN acc
    ELSE LET device == devices_data[i].device
             command == devices_data[i].command
             v == validate_device_command(device, command)
             s == send_command(app_mqtt_client, v.topic, command)
             result(status) == [device |-> device, command |-> command,
                                status |-> status]
         IN  IF device = "" \/ command = ""
             THEN BucleMasivo(devices_data, i + 1,
                      [acc EXCEPT !.results = Append(@, result("error"))])
             ELSE IF v.raises THEN [acc EXCEPT !.raised = TRUE]
             ELSE IF ~v.valid
             THEN BucleMasivo(devices_data, i + 1,
                      [acc EXCEPT !.results = Append(@, result("error"))])
             ELSE BucleMasivo(devices_data, i + 1,
                      [acc EXCEPT
                         !.msgs = @ \o s.msgs,
                         !.results = Append(@,
                             result(IF s.success THEN "success"
                                                 ELSE "error"))])

\* handle_bulk_commands, with the sender's client set from
\* current_app.mqtt_client by control_devices: 400 for an empty list, 200
\* with the result of each element otherwise; raised: an exception left
\* handle_bulk_commands (control_devices answers 500 for it).  No statement
\* of it touches the node table.
handle_bulk_commands(devices_data) ==
    LET p == BucleMasivo(devices_data, 1,
                 [raised |-> FALSE, msgs |-> <<>>, results |-> <<>>])
    IN  IF devices_data = <<>>
        THEN [raised |-> FALSE, msgs |-> <<>>, results |-> <<>>,
              estatus |-> nodo_estatus, status |-> 400]
        ELSE [raised |-> p.raised, msgs |-> p.msgs, results |-> p.results,
              estatus |-> nodo_estatus,
              status |-> IF p.raised THEN 500 ELSE 200]

\* POST /mqtt/control with a devices list.
ControlDevicesBulk ==
    /\ n_comandos < MaxComandos
    /\ \E devices_data \in ListasMasivas :
          LET res == handle_bulk_commands(devices_data)
          IN  /\ published' = published \o res.msgs
              /\ nodo_estatus' = res.estatus
              /\ ultimo_cmd' = [device |-> "",
                                command |-> "",
                                status |-> res.status,
                                raised |-> res.raised,
                                send_llamado |-> FALSE,
                                success |-> FALSE,
                                topic |-> "",
                                cliente |-> app_mqtt_client,
                                conectado |-> is_connected,
                                pub_antes |-> Len(published),
                                nodo_antes |-> nodo_estatus,
                                masivo |-> TRUE,
                                pedidos |-> devices_data,
                                results |-> res.results]
    /\ n_comandos' = n_comandos + 1
    /\ UNCHANGED <<monitor_vars, config, niveles, nodo_existe, notificaciones,
                   app_mqtt_client, is_connected, dummy_running,
                   reconnect_attempts, n_lecturas, ultima, anterior,
                   mqtt_enabled, conexion, suscripciones, excepcion>>

\* --------------------------------------------------------- device monitor
\* The keys f"{device_type}_{device_id}" of the polled devices and the
\* states polled for them; None stands for a key that is absent.
DeviceKeys == {"valves_1", "relays_1"}

DeviceValues == {"ON", "OFF"}

\* What get_all_devices_status hands to the monitor: a state for some of
\* the keys.  The function as shipped returns the four categories empty,
\* which is the poll with every key absent.
EstadosPolled == [DeviceKeys -> DeviceValues \cup {None}]

\* The threshold map of DeviceMonitor.__init__.
UmbralesIniciales ==
    [flow_sensor |-> [min |-> 0, max |-> 100],
     valve_status |-> [timeout_minutes |-> 30],
     relay_status |-> [timeout_minutes |-> 30]]

\* Arguments of update_alert_thresholds.
NuevosUmbrales ==
    {[flow_sensor |-> [max |-> 50]],
     [flow_sensor |-> [min |-> 5, max |-> 50]],
     [valve_status |-> [timeout_minutes |-> 10]]}

\* DeviceMonitor._handle_state_change: hands an event without consumo to
\* crear_evento and logs whatever comes back or is raised.
handle_state_change(device_key, old_state, new_state, tabla) ==
    LET evento_data == [tipo |-> "cambio_estado",
                        descripcion |-> <<device_key, old_state, new_state>>,
                        fecha_evento |-> "now",
                        datos_adicionales |-> <<device_key, old_state, new_state>>]
    IN  crear_evento(evento_data, tabla).tabla

\* The keys of a poll whose state differs from the cached one.
Cambiados(current_states, cache) ==
    {k \in DeviceKeys : /\ current_states[k] # None
                        /\ cache[k] # None
                        /\ current_states[k] # cache[k]}

RECURSIVE RegistraCambios(_, _, _, _)
\* The calls of _handle_state_change for the keys of a set, one after the
\* other.
RegistraCambios(claves, current_states, cache, tabla) ==
    IF claves = {} THEN tabla
    ELSE LET k == CHOOSE x \in claves : TRUE
         IN  RegistraCambios(claves \ {k}, current_states, cache,
                 handle_state_change(k, cache[k], current_states[k], tabla))

\* _check_device_states with the cache written only for a key whose state
\* changed.
check_device_states_SoloCambios(current_states, cache, tabla) ==
    [device_states |-> [k \in DeviceKeys |->
                           IF k \in Cambiados(current_states, cache)
                           THEN current_states[k] ELSE cache[k]],
     eventos |-> RegistraCambios(Cambiados(current_states, cache),
                                 current_states, cache, tabla)]

\* DeviceMonitor._check_device_states: for every polled key, handles the
\* change when the key is cached with another state, then caches the state.
check_device_states(current_states, cache, tabla) ==
    [device_states |-> [k \in DeviceKeys |->
                           IF current_states[k] # None THEN current_states[k]
                           ELSE cache[k]],
     eventos |-> RegistraCambios(Cambiados(current_states, cache),
                                 current_states, cache, tabla)]

\* DeviceMonitor._check_flow_sensor_alerts with its placeholder flow 0.0:
\* reads thresholds['min'] and then thresholds['max']; a missing key raises
\* KeyError, which is logged.  alerta: the alert _create_alert is asked for.
check_flow_sensor_alerts(thresholds) ==
    LET flow == thresholds.flow_sensor
    IN  IF "min" \notin DOMAIN flow THEN [raises |-> TRUE, alerta |-> None]
        ELSE IF 0 < flow.min THEN [raises |-> FALSE, alerta |-> "flow_sensor_low"]
        ELSE IF "max" \notin DOMAIN flow THEN [raises |-> TRUE, alerta |-> None]
        ELSE IF 0 > flow.max THEN [raises |-> FALSE, alerta |-> "flow_sensor_high"]
        ELSE [raises |-> FALSE, alerta |-> None]

\* DeviceMonitor._create_alert: an event without consumo again.
create_alert(alert_type, tabla) ==
    crear_evento([tipo |-> alert_type, descripcion |-> alert_type,
                  fecha_evento |-> "now",
                  datos_adicionales |-> "warning"], tabla).tabla

\* DeviceMonitor.update_alert_thresholds: dict.update, which sets every
\* top-level key of new_thresholds to its new value.
update_alert_thresholds(thresholds, new_thresholds) == new_thresholds @@ thresholds

\* Where a loop that lets the failure of an iteration through goes next.
SiguientePosicion_Propaga(fallo) == IF fallo THEN "fin" ELSE "sleep"

\* Where _monitor_loop goes after an iteration: to time.sleep(30) at the
\* end of the try block, or to time.sleep(60) in the except clause.
SiguientePosicion(fallo) == "sleep"

\* DeviceMonitor.start_monitoring
StartMonitoring ==
    /\ device_monitor
    /\ IF monitoring
       THEN UNCHANGED <<monitoring, monitor_thread, hilos>>
       ELSE /\ Len(hilos) < MaxHilos
            /\ monitoring' = TRUE
            /\ hilos' = Append(hilos, "while")
            /\ monitor_thread' = Len(hilos) + 1
    /\ UNCHANGED <<en_start, device_monitor, device_states, alert_thresholds, eventos,
                   ultimo_ciclo, ultimo_umbral>>
    /\ UNCHANGED <<config, niveles, nodo_existe, nodo_estatus, notificaciones,
                   published, app_mqtt_client, is_connected, dummy_running,
                   reconnect_attempts, n_lecturas, ultima, anterior,
                   mqtt_enabled, conexion, suscripciones, excepcion,
                   n_comandos, ultimo_cmd>>

\* DeviceMonitor.stop_monitoring: clears the flag and waits at most 5
\* seconds for monitor_thread.  A thread before the while test sees the
\* flag and returns within the wait; a thread inside time.sleep(30) or
\* time.sleep(60) wakes within the wait (despierta) or outlasts it.
StopMonitoring ==
    /\ device_monitor
    /\ monitoring' = FALSE
    /\ \E despierta \in BOOLEAN :
          hilos' = [h \in DOMAIN hilos |->
                       IF h # monitor_thread THEN hilos[h]
                       ELSE IF hilos[h] = "sleep" /\ ~despierta THEN "sleep"
                       ELSE "fin"]
    /\ UNCHANGED <<en_start, device_monitor, monitor_thread, device_states,
                   alert_thresholds, eventos, ultimo_ciclo, ultimo_umbral>>
    /\ UNCHANGED <<config, niveles, nodo_existe, nodo_estatus, notificaciones,
                   published, app_mqtt_client, is_connected, dummy_running,
                   reconnect_attempts, n_lecturas, ultima, anterior,
                   mqtt_enabled, conexion, suscripciones, excepcion,
                   n_comandos, ultimo_cmd>>

\* A loop test that never looks at the flag.
DebeSeguir_Siempre(bandera) == TRUE

\* The test of "while self.monitoring:".
DebeSeguir(bandera) == bandera

\* The body of one pass of thread h.  fallo: the iteration raises at its
\* first statement; falla: the connect of the reconnection raises;
\* current_states: the poll; reconecta: the pass calls start().
MonitorCuerpo(h, reconecta, fallos) ==
    \E fallo \in fallos, falla \in BOOLEAN, current_states \in EstadosPolled :
       LET revisados == check_device_states(current_states,
                            device_states, eventos)
           flujo == check_flow_sensor_alerts(alert_thresholds)
           tabla == IF flujo.alerta # None
                    THEN create_alert(flujo.alerta, revisados.eventos)
                    ELSE revisados.eventos
       IN  /\ hilos' = [hilos EXCEPT ![h] = SiguientePosicion(fallo)]
           /\ IF fallo
              THEN UNCHANGED <<device_states, eventos, conexion, excepcion>>
              ELSE /\ device_states' = revisados.device_states
                   /\ eventos' = tabla
                   /\ IF ~reconecta
                      THEN UNCHANGED <<conexion, excepcion>>
                      ELSE /\ conexion' = start(falla).conexion
                           /\ excepcion' = start(falla).excepcion
           /\ ultimo_ciclo' =
                 [hilo |-> h,
                  fallo |-> fallo,
                  tras_fallo |-> ultimo_ciclo.hilo = h /\ ultimo_ciclo.fallo,
                  polled |-> IF fallo THEN [k \in DeviceKeys |-> None]
                             ELSE current_states,
                  cambiados |-> IF fallo THEN 0
                      ELSE Cardinality(Cambiados(current_states,
                                                 device_states)),
                  primeras |-> IF fallo THEN 0
                      ELSE Cardinality({k \in DeviceKeys :
                               /\ current_states[k] # None
                               /\ device_states[k] = None}),
                  eventos_antes |-> Len(eventos),
                  alerta |-> IF fallo THEN None ELSE flujo.alerta,
                  error_umbral |-> ~fallo /\ flujo.raises]

\* One pass of thread h through "while self.monitoring:" and the loop body,
\* the call of start() for a disconnected client included.
MonitorIteracionDe(h) ==
      /\ h \in DOMAIN hilos
      /\ hilos[h] = "while"
      /\ h \notin en_start.hilos
      /\ IF ~DebeSeguir(monitoring)
         THEN /\ hilos' = [hilos EXCEPT ![h] = "fin"]
              /\ UNCHANGED <<device_states, eventos, ultimo_ciclo, conexion,
                             excepcion>>
         ELSE MonitorCuerpo(h, ~is_connected, BOOLEAN)
      /\ UNCHANGED <<en_start, device_monitor, monitoring, monitor_thread,
                     alert_thresholds, ultimo_umbral>>
      /\ UNCHANGED <<config, niveles, nodo_existe, nodo_estatus,
                     notificaciones, published, app_mqtt_client, is_connected,
                     dummy_running, reconnect_attempts, n_lecturas, ultima,
                     anterior, mqtt_enabled, suscripciones, n_comandos,
                     ultimo_cmd>>

\* The pass of any of the threads.
MonitorIteracion == \E h \in DOMAIN hilos : MonitorIteracionDe(h)

\* Thread h returns from time.sleep and goes back to the while test.
MonitorDespiertaDe(h) ==
      /\ h \in DOMAIN hilos
      /\ hilos[h] = "sleep"
      /\ hilos' = [hilos EXCEPT ![h] = "while"]
      /\ UNCHANGED <<en_start, device_monitor, monitoring, monitor_thread, device_states,
                     alert_thresholds, eventos, ultimo_ciclo, ultimo_umbral>>
      /\ UNCHANGED <<config, niveles, nodo_existe, nodo_estatus,
                     notificaciones, published, app_mqtt_client, is_connected,
                     dummy_running, reconnect_attempts, n_lecturas, ultima,
                     anterior, mqtt_enabled, conexion, suscripciones,
                     excepcion, n_comandos, ultimo_cmd>>

\* Any of the threads returns from time.sleep.
MonitorDespierta == \E h \in DOMAIN hilos : MonitorDespiertaDe(h)

\* --------------------------------------------- reconnection, step by step
\* The number of threads inside start().
EnStart == Cardinality(en_start.hilos) + (IF en_start.loop THEN 1 ELSE 0)

\* on_disconnect up to its call of self.start(): clears the flag and, for
\* an unexpected disconnection below the limit, counts the attempt, sleeps
\* 5 seconds and enters start() in the network loop thread.
OnDisconnectEntra ==
    /\ app_mqtt_client
    /\ conexion # "cerrada"
    /\ ~en_start.loop
    /\ \E rc \in {0, 7} :
          /\ rc = 0 <=> conexion = "cerrando"
          /\ is_connected' = FALSE
          /\ conexion' = "cerrada"
          /\ excepcion' = FALSE
          /\ IF DebeReconectar(rc, reconnect_attempts)
             THEN /\ reconnect_attempts' = reconnect_attempts + 1
                  /\ en_start' = [en_start EXCEPT !.loop = TRUE]
             ELSE UNCHANGED <<reconnect_attempts, en_start>>
    /\ UNCHANGED <<device_monitor, monitoring, monitor_thread, hilos,
                   device_states, alert_thresholds, eventos, ultimo_ciclo,
                   ultimo_umbral>>
    /\ UNCHANGED <<config, niveles, nodo_existe, nodo_estatus, notificaciones,
                   published, app_mqtt_client, dummy_running, n_lecturas,
                   ultima, anterior, mqtt_enabled, suscripciones, n_comandos,
                   ultimo_cmd>>

\* The start() entered from on_disconnect returns or raises.
OnDisconnectSale ==
    /\ en_start.loop
    /\ \E falla \in BOOLEAN :
          /\ conexion' = start(falla).conexion
          /\ excepcion' = start(falla).excepcion
    /\ en_start' = [en_start EXCEPT !.loop = FALSE]
    /\ UNCHANGED <<device_monitor, monitoring, monitor_thread, hilos,
                   device_states, alert_thresholds, eventos, ultimo_ciclo,
                   ultimo_umbral>>
    /\ UNCHANGED <<config, niveles, nodo_existe, nodo_estatus, notificaciones,
                   published, app_mqtt_client, is_connected, dummy_running,
                   reconnect_attempts, n_lecturas, ultima, anterior,
                   mqtt_enabled, suscripciones, n_comandos, ultimo_cmd>>

\* Thread h of _monitor_loop passes the loop test, reads is_connected as
\* False and enters start() through _handle_mqtt_disconnection.
MonitorEntra ==
    \E h \in DOMAIN hilos :
      /\ hilos[h] = "while"
      /\ h \notin en_start.hilos
      /\ DebeSeguir(monitoring)
      /\ ~is_connected
      /\ en_start' = [en_start EXCEPT !.hilos = @ \cup {h}]
      /\ UNCHANGED <<device_monitor, monitoring, monitor_thread, hilos,
                     device_states, alert_thresholds, eventos, ultimo_ciclo,
                     ultimo_umbral>>
      /\ UNCHANGED <<config, niveles, nodo_existe, nodo_estatus,
                     notificaciones, published, app_mqtt_client, is_connected,
                     dummy_running, reconnect_attempts, n_lecturas, ultima,
                     anterior, mqtt_enabled, conexion, suscripciones,
                     excepcion, n_comandos, ultimo_cmd>>

\* The start() entered by thread h returns or raises (the except clause of
\* _handle_mqtt_disconnection logs it) and the thread runs the rest of the
\* pass.
MonitorSale ==
    \E h \in en_start.hilos :
      /\ MonitorCuerpo(h, TRUE, {FALSE})
      /\ en_start' = [en_start EXCEPT !.hilos = @ \ {h}]
      /\ UNCHANGED <<device_monitor, monitoring, monitor_thread,
                     alert_thresholds, ultimo_umbral>>
      /\ UNCHANGED <<config, niveles, nodo_existe, nodo_estatus,
                     notificaciones, published, app_mqtt_client, is_connected,
                     dummy_running, reconnect_attempts, n_lecturas, ultima,
                     anterior, mqtt_enabled, suscripciones, n_comandos,
                     ultimo_cmd>>

\* A pass of a thread that reads is_connected as True.
MonitorConectado == is_connected /\ MonitorIteracion

\* A call of update_alert_thresholds.
UpdateAlertThresholds ==
    /\ device_monitor
    /\ \E new_thresholds \in NuevosUmbrales :
          /\ alert_thresholds' =
                 update_alert_thresholds(alert_thresholds, new_thresholds)
          /\ ultimo_umbral' = [hecha |-> TRUE, antes |-> alert_thresholds,
                               pedido |-> new_thresholds]
    /\ UNCHANGED <<en_start, device_monitor, monitoring, monitor_thread, hilos,
                   device_states, eventos, ultimo_ciclo>>
    /\ UNCHANGED <<config, niveles, nodo_existe, nodo_estatus, notificaciones,
                   published, app_mqtt_client, is_connected, dummy_running,
                   reconnect_attempts, n_lecturas, ultima, anterior,
                   mqtt_enabled, conexion, suscripciones, excepcion,
                   n_comandos, ultimo_cmd>>

\* ------------------------------------------------------------ specification
\* initialize_mqtt_client leaves a client (MQTT enabled), no client and no
\* simulator (MQTT disabled), or no client and the simulator (failure).
Arranques ==
    {[enabled |-> TRUE, cliente |-> TRUE, dummy |-> FALSE],
     [enabled |-> FALSE, cliente |-> FALSE, dummy |-> FALSE],
     [enabled |-> TRUE, cliente |-> FALSE, dummy |-> TRUE]}

\* Everything but the configuration table after create_app.
InitResto ==
    /\ niveles = <<>>
    /\ nodo_existe \in BOOLEAN
    /\ nodo_estatus = 0
    /\ notificaciones = <<>>
    /\ published = <<>>
    /\ \E a \in Arranques :
          /\ mqtt_enabled = a.enabled
          /\ app_mqtt_client = a.cliente
          /\ dummy_running = a.dummy
          /\ conexion \in IF a.cliente THEN {"pendiente", "cerrada"}
                                      ELSE {"cerrada"}
          /\ device_monitor = a.cliente
          /\ monitoring = a.cliente
          /\ monitor_thread = IF a.cliente THEN 1 ELSE 0
          /\ hilos = IF a.cliente THEN <<"while">> ELSE <<>>
    /\ device_states = [k \in DeviceKeys |-> None]
    /\ alert_thresholds = UmbralesIniciales
    /\ eventos = <<>>
    /\ ultimo_ciclo = [hilo |-> 0, fallo |-> FALSE, tras_fallo |-> FALSE,
                       polled |-> [k \in DeviceKeys |-> None],
                       cambiados |-> 0,
                       primeras |-> 0, eventos_antes |-> 0, alerta |-> None,
                       error_umbral |-> FALSE]
    /\ ultimo_umbral = [hecha |-> FALSE, antes |-> UmbralesIniciales,
                        pedido |-> UmbralesIniciales]
    /\ en_start = [loop |-> FALSE, hilos |-> {}]
    /\ suscripciones = {}
    /\ excepcion = FALSE
    /\ n_comandos = 0
    /\ ultimo_cmd = [device |-> "", command |-> "", status |-> 0,
                     raised |-> FALSE, send_llamado |-> FALSE,
                     success |-> FALSE, topic |-> "", cliente |-> FALSE,
                     conectado |-> FALSE, pub_antes |-> 0, nodo_antes |-> 0,
                     masivo |-> FALSE]
    /\ is_connected = FALSE
    /\ reconnect_attempts = 0
    /\ n_lecturas = 0
    /\ anterior = [fuente |-> "ninguna", fallas |-> {}, persistidos |-> 0,
                   llamadas |-> <<>>,
                   notif_antes |-> 0]
    /\ ultima = [fuente |-> "ninguna", fallas |-> {},
                 lectura |-> [clasificada |-> FALSE],
                 llamadas |-> <<>>, persistidos |-> 0, ultimo_status |-> 0,
                 crear_status |-> 0, previo |-> None, notif_antes |-> 0,
                 pub_antes |-> 0, nodo_antes |-> nodo_estatus,
                 conectado |-> FALSE, topic |-> None, payload |-> None,
                 flow_value |-> -1, eventos_antes |-> 0,
                 sesiones |-> 0, sesiones_al_publicar |-> -1]

\* The configuration of the reference installation: tank height 100 and
\* thresholds 80, 50, 20.
Init ==
    /\ config = [altura |-> 100, alto |-> 80, normal |-> 50, bajo |-> 20]
    /\ InitResto

Next ==
    \/ HandleWaterLevel
    \/ HandleFlowSensor
    \/ DummyTick
    \/ OnConnect
    \/ OnDisconnect

Spec == Init /\ [][Next]_vars

\* Classification of one water-level message under every stored
\* configuration.
InitClasif ==
    /\ config \in {[altura |-> h, alto |-> u[1], normal |-> u[2], bajo |-> u[3]] :
                      h \in Alturas, u \in Umbrales}
    /\ InitResto
    /\ app_mqtt_client

PrimeraLectura ==
    /\ n_lecturas = 0
    /\ HandleWaterLevel

NextClasif ==
    \/ PrimeraLectura
    \/ OnConnect
    \/ OnDisconnect

SpecClasif == InitClasif /\ [][NextClasif]_vars

\* The command route and the life cycle of the ingestion client.
NextControl ==
    \/ ControlDevices
    \/ Start
    \/ Stop
    \/ OnConnect
    \/ OnDisconnect

SpecControl == Init /\ [][NextControl]_vars

\* The simulator loop and a client that appears while it runs.
NextSimulador ==
    \/ DummyTick
    \/ AsignaCliente

SpecSimulador == Init /\ [][NextSimulador]_vars

\* The two background loops: the device monitor with the calls that start
\* and stop it, and the simulator.
NextMonitor ==
    \/ StartMonitoring
    \/ StopMonitoring
    \/ MonitorIteracion
    \/ MonitorDespierta
    \/ DummyTick

SpecMonitor == Init /\ [][NextMonitor]_vars

\* The command route and the messages that come back on the subscribed
\* status and control topics.
NextEco ==
    \/ ControlDevices
    \/ OnConnect
    \/ HandleOtherTopic

SpecEco == Init /\ [][NextEco]_vars

\* The command route with both kinds of request, and the connection
\* callbacks.
NextMasivo ==
    \/ ControlDevices
    \/ ControlDevicesBulk
    \/ OnConnect
    \/ OnDisconnect

SpecMasivo == Init /\ [][NextMasivo]_vars

\* The reconnection with the calls of start() taking time: the callbacks of
\* the network loop thread and the passes of the monitor threads.
NextReconexion ==
    \/ OnConnect
    \/ OnDisconnectEntra
    \/ OnDisconnectSale
    \/ MonitorEntra
    \/ MonitorSale
    \/ MonitorConectado
    \/ MonitorDespierta

SpecReconexion == Init /\ [][NextReconexion]_vars

\* The same with every started thread scheduled again and again: a thread
\* that can test the flag or return from time.sleep eventually does.
SpecMonitorFair ==
    /\ Init
    /\ [][NextMonitor]_vars
    /\ \A h \in 1..MaxHilos :
          WF_vars(MonitorIteracionDe(h)) /\ WF_vars(MonitorDespiertaDe(h))

\* The monitor loop and the calls that update its thresholds.
NextUmbrales ==
    \/ UpdateAlertThresholds
    \/ MonitorIteracion
    \/ MonitorDespierta

SpecUmbrales == Init /\ [][NextUmbrales]_vars

\* The message router on every topic.
NextRouter ==
    \/ HandleWaterLevel
    \/ HandleFlowSensor
    \/ HandleOtherTopic

SpecRouter == Init /\ [][NextRouter]_vars

\* ------------------------------------------------------------------ claims
Llamadas == {ultima.llamadas[i] : i \in DOMAIN ultima.llamadas}

\* The run changed neither the gate node nor the notifications nor the
\* transport.
SinEfecto ==
    /\ nodo_estatus = ultima.nodo_antes
    /\ Len(notificaciones) = ultima.notif_antes
    /\ Len(published) = ultima.pub_antes

\* C1: every call of actions_for_water_level_data requests ABRIR and node
\* status 1 exactly when the state is BAJO or MUY_BAJO, requests CERRAR and
\* node status 0 exactly when the state is not low and desnivel is False,
\* and otherwise requests no command, writes no node status and creates no
\* notification.
C1_ActuacionExacta ==
    /\ \A c \in Llamadas :
          /\ (c.cmds = <<"ABRIR">> /\ c.nodos = <<1>>)
                 <=> c.nivel_estado \in EstadosBajos
          /\ (c.cmds = <<"CERRAR">> /\ c.nodos = <<0>>)
                 <=> (c.nivel_estado \notin EstadosBajos /\ c.desnivel = "False")
          /\ (c.nivel_estado \notin EstadosBajos /\ c.desnivel # "False")
                 => (c.cmds = <<>> /\ c.nodos = <<>> /\ c.notif_intentos = 0)
          /\ c.db_success => (nodo_existe /\ nodo_estatus = c.nodos[1])
    /\ (\A c \in Llamadas : c.nivel_estado \notin EstadosBajos
                               /\ c.desnivel # "False") => SinEfecto

C1_Witness ==
    /\ \E c \in Llamadas : c.cmds = <<"ABRIR">> /\ c.db_success
    /\ nodo_estatus = 1
    /\ ultima.nodo_antes = 0

\* C2: with desnivel false the router classifies ALTO if the percentage is
\* at least umbral_alto, else NORMAL if it is at least umbral_normal, else
\* BAJO if it is at most umbral_bajo, else MUY_BAJO; with desnivel true it
\* classifies LLENO whatever the percentage.
C2_CadenaClasificacion ==
    (ultima.fuente = "mqtt" /\ ultima.lectura.clasificada) =>
        LET p == ultima.lectura.porcentaje_agua
            e == ultima.lectura.nivel_estado
        IN  IF ultima.lectura.desnivel
            THEN e = "LLENO"
            ELSE /\ p >= config.alto => e = "ALTO"
                 /\ (p < config.alto /\ p >= config.normal) => e = "NORMAL"
                 /\ (p < config.alto /\ p < config.normal /\ p <= config.bajo)
                        => e = "BAJO"
                 /\ (p < config.alto /\ p < config.normal /\ p > config.bajo)
                        => e = "MUY_BAJO"

\* A reading at or below umbral_bajo that is nevertheless NORMAL because
\* the NORMAL test comes first.
C2_Witness ==
    /\ ultima.fuente = "mqtt"
    /\ ultima.lectura.clasificada
    /\ ~ultima.lectura.desnivel
    /\ ultima.lectura.porcentaje_agua <= config.bajo
    /\ ultima.lectura.porcentaje_agua < config.alto
    /\ ultima.lectura.nivel_estado = "NORMAL"

\* C3: under thresholds 80, 50, 20 and desnivel false, percentage 90 is
\* ALTO, 60 is NORMAL, 15 is MUY_BAJO and 20 is BAJO; with desnivel true
\* every percentage is LLENO.
C3_Ejemplos ==
    (/\ ultima.fuente = "mqtt"
     /\ ultima.lectura.clasificada
     /\ config.alto = 80 /\ config.normal = 50 /\ config.bajo = 20) =>
        LET p == ultima.lectura.porcentaje_agua
            e == ultima.lectura.nivel_estado
        IN  IF ultima.lectura.desnivel
            THEN e = "LLENO"
            ELSE /\ p = 90 => e = "ALTO"
                 /\ p = 60 => e = "NORMAL"
                 /\ p = 15 => e = "MUY_BAJO"
                 /\ p = 20 => e = "BAJO"

\* Two consecutive readings through save_water_level_data, both persisted,
\* with the same classified state.
DosLecturasIguales ==
    /\ ultima.fuente = "mqtt" /\ ultima.persistidos = 1
    /\ anterior.fuente = "mqtt" /\ anterior.persistidos = 1
    /\ ultima.previo = ultima.lectura.nivel_estado

\* Notifications created by the two most recent runs together.
NotifDeLasDos == Len(notificaciones) - anterior.notif_antes

\* Notifications created by the most recent run.
NotifDeLaUltima == Len(notificaciones) - ultima.notif_antes

C5_SoloEnTransicion ==
    (/\ ultima.lectura.clasificada
     /\ ultima.ultimo_status \in {200, 404}
     /\ NotifDeLaUltima > 0) =>
        (ultima.previo = None \/ ultima.previo # ultima.lectura.nivel_estado)

\* C6: a reading from the router or from the simulator is persisted at most
\* once and handed to actions_for_water_level_data at most once.
C6_UnaVezPorLectura ==
    ultima.fuente \in {"mqtt", "dummy"} =>
        (ultima.persistidos <= 1 /\ Len(ultima.llamadas) <= 1)

\* C7: when the insert of a reading does not return 201, the run requests
\* no gate command, leaves the gate node status unchanged and creates no
\* notification.
C7_SinPersistenciaSinActuacion ==
    (ultima.lectura.clasificada /\ ultima.crear_status = 500) =>
        /\ \A c \in Llamadas : c.cmds = <<>>
        /\ SinEfecto

\* C8: with the client connected, a persisted reading classified BAJO or
\* MUY_BAJO publishes ABRIR on control/compuerta, and a persisted reading
\* that is not low with desnivel false publishes CERRAR on it.
C8_PublicaComando ==
    (/\ ultima.fuente = "mqtt"
     /\ ultima.conectado
     /\ ultima.persistidos = 1
     /\ ultima.fallas = {}) =>
        \A c \in Llamadas :
            c.cmds # <<>> =>
                /\ Len(published) = ultima.pub_antes + 1
                /\ published[Len(published)] =
                       [topic |-> GATE_TOPIC, payload |-> c.cmds[1]]

\* C9: a reading with distancia 95 and tank height 100 has percentage 5, is
\* classified MUY_BAJO, requests ABRIR and node status 1, and creates a
\* notification only if the previous persisted state was not MUY_BAJO.
C9_ExtremoAExtremo ==
    (/\ ultima.fuente = "mqtt"
     /\ ultima.lectura.clasificada
     /\ ultima.lectura.distancia = 95
     /\ ~ultima.lectura.desnivel
     /\ config.altura = 100
     /\ ultima.persistidos = 1
     /\ ultima.fallas = {}) =>
        /\ ultima.lectura.porcentaje_agua = 5
        /\ ultima.lectura.nivel_estado = "MUY_BAJO"
        /\ \A c \in Llamadas : c.cmds = <<"ABRIR">> /\ c.nodos = <<1>>
        /\ nodo_existe => nodo_estatus = 1
        /\ NotifDeLaUltima > 0 => ultima.previo # "MUY_BAJO"

\* C10: when the client is absent or disconnected, so that the command send
\* returns false, an actuating call still requests the node status, the
\* status is stored when the gate node exists and its update does not
\* raise, and a notification is attempted exactly when the looked-up state
\* is none or differs from the reading's state.
C10_SinBrokerActualizaNodo ==
    ~ultima.conectado =>
        \A i \in DOMAIN ultima.llamadas :
            LET c == ultima.llamadas[i]
            IN  c.cmds # <<>> =>
                  /\ ~c.mqtt_success
                  /\ c.nodos = <<IF c.cmds = <<"ABRIR">> THEN 1 ELSE 0>>
                  /\ (nodo_existe /\ "nodo" \notin ultima.fallas)
                         => c.db_success
                  /\ (c.db_success /\ i = Len(ultima.llamadas))
                         => nodo_estatus = c.nodos[1]
                  /\ c.notif_intentos = 1
                         <=> (c.last_nivel_estado = None
                              \/ c.last_nivel_estado # c.nivel_estado)
                  /\ "notif" \notin ultima.fallas
                         => c.notif_creadas = c.notif_intentos

C10_Witness ==
    /\ ~ultima.conectado
    /\ ultima.fuente = "mqtt"
    /\ \E c \in Llamadas : c.cmds = <<"ABRIR">> /\ ~c.mqtt_success
                              /\ c.db_success /\ c.notif_creadas = 1
    /\ nodo_estatus = 1
    /\ ultima.nodo_antes = 0

\* The pair of the most recent command request is in the registry: the
\* device is one of its keys and the command, in any case, one of the
\* device's commands.
EnRegistro ==
    /\ ultimo_cmd.device \in DOMAIN DEVICE_MAPPING
    /\ ultimo_cmd.command # NoTexto
    /\ Upper(ultimo_cmd.command)
           \in DEVICE_MAPPING[ultimo_cmd.device].valid_commands

\* C11: a command request whose device is not in the registry or whose
\* command is not in the device's allowed set is answered with the
\* validation rejection (400), no exception leaves handle_single_command,
\* send_command is not called and nothing is handed to the transport.
C11_RechazoSinEnvio ==
    (ultimo_cmd.status # 0 /\ ~EnRegistro) =>
        /\ ultimo_cmd.status = 400
        /\ ~ultimo_cmd.raised
        /\ ~ultimo_cmd.send_llamado
        /\ Len(published) = ultimo_cmd.pub_antes

\* C12: with a connected client, a request for a device of the registry
\* with one of its allowed commands hands the command to the transport on
\* the device's topic and succeeds.
C12_RegistroPublica ==
    (/\ ultimo_cmd.status # 0
     /\ ultimo_cmd.device \in DOMAIN DEVICE_MAPPING
     /\ ultimo_cmd.command \in DEVICE_MAPPING[ultimo_cmd.device].valid_commands
     /\ ultimo_cmd.cliente
     /\ ultimo_cmd.conectado) =>
        /\ ultimo_cmd.success
        /\ ultimo_cmd.status = 200
        /\ Len(published) = ultimo_cmd.pub_antes + 1
        /\ published[Len(published)] =
               [topic |-> DEVICE_MAPPING[ultimo_cmd.device].topic,
                payload |-> ultimo_cmd.command]

\* C13: the payload handed to the transport for a valid command is the
\* uppercase form of the command that was requested.
C13_PayloadEnMayusculas ==
    (ultimo_cmd.status # 0 /\ Len(published) > ultimo_cmd.pub_antes) =>
        published[Len(published)].payload = Upper(ultimo_cmd.command)

\* C14: send_command without a client or with the connected flag false, and
\* publish_command with the flag false, return false and hand nothing to
\* the transport; publish_command with the flag true hands the message over
\* and returns true.  The same holds of the send of the most recent
\* command request.
C14_SinConexionNoPublica ==
    /\ \A t \in TopicosRouter, c \in {"ON", "ABRIR"} :
          /\ send_command(FALSE, t, c) = [success |-> FALSE, msgs |-> <<>>]
          /\ ~is_connected =>
                /\ send_command(TRUE, t, c) = [success |-> FALSE, msgs |-> <<>>]
                /\ publish_command(t, c) = [success |-> FALSE, msgs |-> <<>>]
          /\ is_connected =>
                publish_command(t, c) =
                    [success |-> TRUE,
                     msgs |-> <<[topic |-> t, payload |-> c]>>]
    /\ (ultimo_cmd.send_llamado
            /\ ~(ultimo_cmd.cliente /\ ultimo_cmd.conectado)) =>
          /\ ~ultimo_cmd.success
          /\ ~ultimo_cmd.raised
          /\ Len(published) = ultimo_cmd.pub_antes
    /\ (ultimo_cmd.send_llamado /\ ultimo_cmd.success) =>
          /\ Len(published) = ultimo_cmd.pub_antes + 1
          /\ published[Len(published)].topic = ultimo_cmd.topic

C14_Witness ==
    /\ ultimo_cmd.send_llamado
    /\ ultimo_cmd.cliente
    /\ ~ultimo_cmd.conectado
    /\ ultimo_cmd.command = "ON"
    /\ ultimo_cmd.status = 500
    /\ Len(published) = 0

\* C15: reconnect_attempts never exceeds max_reconnect_attempts; an
\* unexpected disconnect at the bound opens no link; and once the client
\* has given up, the connected flag stays false and the link closed until
\* a step that is a call of start().
C15_ReconexionAcotada ==
    /\ [](reconnect_attempts <= max_reconnect_attempts)
    /\ [][(OnDisconnect /\ reconnect_attempts = max_reconnect_attempts) =>
              /\ conexion' = "cerrada"
              /\ ~is_connected'
              /\ reconnect_attempts' = reconnect_attempts]_vars
    /\ [][(/\ reconnect_attempts = max_reconnect_attempts
           /\ conexion = "cerrada"
           /\ ~Start) =>
              /\ ~is_connected'
              /\ conexion' = "cerrada"
              /\ reconnect_attempts' = reconnect_attempts]_vars

C15_Witness ==
    /\ reconnect_attempts = max_reconnect_attempts
    /\ conexion = "cerrada"
    /\ ~is_connected

\* C16: a call of start() on a client that is connected makes no new
\* broker connect and leaves the connected flag, reconnect_attempts and the
\* subscriptions unchanged.
C16_StartIdempotente ==
    [][(Start /\ is_connected /\ conexion = "abierta") =>
           UNCHANGED <<conexion, is_connected, reconnect_attempts,
                       suscripciones>>]_vars

C18_SuscritoATodo ==
    is_connected => TopicosRouter \subseteq suscripciones

\* C19: an iteration of the simulator loop that starts while the
\* application holds a client leaves the loop without persisting a reading,
\* publishing a command, writing the node or creating a notification, and
\* a loop that was left never runs again.
C19_SimuladorCede ==
    /\ [][(app_mqtt_client /\ DummyTick) =>
              /\ ~dummy_running'
              /\ UNCHANGED <<niveles, nodo_estatus, notificaciones,
                             published, n_lecturas, ultima>>]_vars
    /\ [][~dummy_running => ~dummy_running']_vars

C19_Witness ==
    /\ app_mqtt_client
    /\ ~dummy_running
    /\ ultima.fuente = "dummy"
    /\ n_lecturas < MaxLecturas

\* C20: whenever the application holds no client, the simulator loop is
\* running.
C20_SinClienteHaySimulador ==
    ~app_mqtt_client => dummy_running

\* A call of the most recent run requested a gate command.
GateActuada(command) == \E c \in Llamadas : c.cmds = <<command>>

\* C21: a simulated reading of the CRITICO scenario (desnivel true) that is
\* processed with no call raising actuates the gate, and a simulated NORMAL
\* reading closes it.
C21_CriticoActuaNormalCierra ==
    (/\ ultima.fuente = "dummy"
     /\ ultima.lectura.clasificada
     /\ ultima.fallas = {}
     /\ ultima.persistidos = 1) =>
        /\ ultima.lectura.nivel_estado = "CRITICO" =>
               (GateActuada("ABRIR") \/ GateActuada("CERRAR"))
        /\ ultima.lectura.nivel_estado = "NORMAL" => GateActuada("CERRAR")

\* The _monitor_loop threads that have not returned.
HilosVivos == {h \in DOMAIN hilos : hilos[h] # "fin"}

\* C22: whatever the sequence of start_monitoring and stop_monitoring
\* calls, at most one _monitor_loop thread is alive at any time.
C22_UnSoloLoop == Cardinality(HilosVivos) <= 1

C24_UmbralesSeMezclan ==
    ultimo_umbral.hecha =>
        \A c \in DOMAIN ultimo_umbral.antes :
            \A b \in DOMAIN ultimo_umbral.antes[c] :
                (c \notin DOMAIN ultimo_umbral.pedido
                 \/ b \notin DOMAIN ultimo_umbral.pedido[c]) =>
                    /\ c \in DOMAIN alert_thresholds
                    /\ b \in DOMAIN alert_thresholds[c]
                    /\ alert_thresholds[c][b] = ultimo_umbral.antes[c][b]

\* C25: a _monitor_loop thread returns only in a step that finds or leaves
\* the monitoring flag false, and an iteration that raised leaves its
\* thread in the loop; the simulator loop ends only when the application
\* holds a client, and an iteration of it that raised leaves it running.
C25_FalloNoTerminaLoop ==
    /\ [][\A h \in DOMAIN hilos :
             (hilos[h] # "fin" /\ monitoring /\ monitoring')
                 => hilos'[h] # "fin"]_vars
    /\ [][(ultimo_ciclo' # ultimo_ciclo /\ ultimo_ciclo'.fallo)
             => hilos'[ultimo_ciclo'.hilo] = "sleep"]_vars
    /\ [][(dummy_running /\ ~app_mqtt_client) => dummy_running']_vars
    /\ [][(ultima' # ultima /\ ultima'.fuente = "dummy"
              /\ ultima'.fallas # {}) => dummy_running']_vars

\* An iteration of a monitor thread ran to its end right after an
\* iteration of the same thread that raised.
C25_Witness ==
    /\ ultimo_ciclo.hilo # 0
    /\ ultimo_ciclo.tras_fallo
    /\ ~ultimo_ciclo.fallo
    /\ monitoring
    /\ hilos[ultimo_ciclo.hilo] = "sleep"

\* The most recent run was process_message on a topic no branch matches.
NoReconocido == ultima.fuente = "otro" /\ Manejador(ultima.topic) = "no reconocido"

C27_MensajeDescartado ==
    (/\ ultima.fuente = "mqtt"
     /\ (ultima.payload \in {"vacio", "invalido"} \/ config.altura = 0)) =>
        /\ ultima.persistidos = 0
        /\ niveles = <<>>
        /\ ultima.llamadas = <<>>
        /\ SinEfecto

\* A well-formed message was dropped because the tank height is 0.
C27_Witness ==
    /\ ultima.fuente = "mqtt"
    /\ ultima.payload = "json"
    /\ ~ultima.lectura.clasificada
    /\ config.altura = 0
    /\ niveles = <<>>

\* The persisted readings that carry a percentage, which are those of the
\* router.
ConPorcentaje == {i \in DOMAIN niveles : "porcentaje_agua" \in DOMAIN niveles[i]}

\* C28: the percentage of every classified reading satisfies
\* percentage = 100 - distance / tank_height * 100 (stated without the
\* division), and of two readings under the same tank height the one with
\* the greater distance has the strictly smaller percentage.
C28_PorcentajeDecrece ==
    /\ \A i \in ConPorcentaje :
          (100 - niveles[i].porcentaje_agua) * config.altura
              = niveles[i].distancia * 100
    /\ \A i, j \in ConPorcentaje :
          niveles[i].distancia < niveles[j].distancia
              => niveles[i].porcentaje_agua > niveles[j].porcentaje_agua
    /\ \A h \in Alturas \ {0} : \A d1, d2 \in Distancias :
          d1 < d2 => Porcentaje(d1, h) > Porcentaje(d2, h)

\* Two persisted readings of the router, the second farther from the
\* sensor and with the smaller percentage.
C28_Witness ==
    /\ ConPorcentaje = {1, 2}
    /\ niveles[1].distancia = 40 /\ niveles[1].porcentaje_agua = 60
    /\ niveles[2].distancia = 95 /\ niveles[2].porcentaje_agua = 5

\* C29: the state that the call of actions_for_water_level_data made by
\* save_water_level_data compares with is the state of the reading that
\* was the last one persisted before the new reading was written (none
\* when the log was empty), never the state of the new reading itself.
C29_PrevioAntesDeEscribir ==
    (/\ ultima.fuente \in {"mqtt", "dummy"}
     /\ ultima.persistidos = 1
     /\ ultima.ultimo_status # 500) =>
        /\ Len(ultima.llamadas) >= 1
        /\ ultima.llamadas[1].last_nivel_estado = ultima.previo
        /\ ultima.ultimo_status = (IF ultima.previo = None THEN 404 ELSE 200)

\* A reading classified ALTO was persisted after one classified BAJO and
\* compared with BAJO.
C29_Witness ==
    /\ ultima.fuente = "mqtt"
    /\ ultima.persistidos = 1
    /\ Len(niveles) = 2
    /\ ultima.lectura.nivel_estado = "ALTO"
    /\ ultima.previo = "BAJO"
    /\ ultima.llamadas[1].last_nivel_estado = "BAJO"

\* C30: with the gate node present, a reading of the router that is
\* persisted with no call raising leaves the gate node status at 1 when it
\* is BAJO or MUY_BAJO and at 0 when it is not low and desnivel is false; a
\* reading with desnivel true is LLENO, is persisted, and leaves the gate
\* node status and the notifications as the readings before it left them.
C30_NodoSigueUltimaActuacion ==
    (/\ ultima.fuente = "mqtt"
     /\ ultima.lectura.clasificada
     /\ ultima.fallas = {}
     /\ nodo_existe) =>
        LET e == ultima.lectura.nivel_estado
        IN  /\ ultima.persistidos = 1
            /\ e \in EstadosBajos => nodo_estatus = 1
            /\ (e \notin EstadosBajos /\ ~ultima.lectura.desnivel)
                   => nodo_estatus = 0
            /\ ultima.lectura.desnivel =>
                   /\ e = "LLENO"
                   /\ niveles[Len(niveles)].nivel_estado = "LLENO"
                   /\ nodo_estatus = ultima.nodo_antes
                   /\ Len(notificaciones) = ultima.notif_antes

\* A LLENO reading was persisted after a low reading had opened the gate,
\* and the gate node is still open.
C30_Witness ==
    /\ ultima.fuente = "mqtt"
    /\ ultima.lectura.clasificada
    /\ ultima.lectura.desnivel
    /\ ultima.fallas = {}
    /\ nodo_existe
    /\ Len(niveles) = 2
    /\ niveles[1].nivel_estado \in EstadosBajos
    /\ nodo_estatus = 1
    /\ Len(notificaciones) = 1

\* C31: after an iteration of the monitor that polled, the cache holds for
\* every polled key the state just polled, whether or not the state
\* changed and whether or not the change was recorded as an event; and a
\* key that is in the cache stays in it.
C31_CacheRefrescada ==
    /\ [](\A k \in DeviceKeys :
             ultimo_ciclo.polled[k] # None
                 => device_states[k] = ultimo_ciclo.polled[k])
    /\ [][\A k \in DeviceKeys :
             device_states[k] # None => device_states'[k] # None]_vars

\* A change of valves_1 from ON to OFF was polled, no event was recorded
\* for it, and the cache holds OFF.
C31_Witness ==
    /\ ultimo_ciclo.cambiados = 1
    /\ ultimo_ciclo.polled["valves_1"] = "OFF"
    /\ ultimo_ciclo.polled["relays_1"] = None
    /\ device_states["valves_1"] = "OFF"
    /\ device_states["relays_1"] = "ON"
    /\ eventos = <<>>

\* C32: the connected flag of the ingestion client changes only in a step
\* of one of its callbacks, on_connect or on_disconnect, which run in the
\* client's own network loop.
C32_BanderaSoloDesdeLoop ==
    [][is_connected' # is_connected => (OnConnect \/ OnDisconnect)]_vars

\* C33: while the monitoring flag stays cleared no thread runs the body of
\* an iteration: a thread at the loop test can only return; and once the
\* flag is cleared, either start_monitoring sets it again or every thread
\* of the loop has returned in the end.
C33_LoopTerminaTrasStop ==
    /\ [][(~monitoring /\ ~monitoring') =>
             /\ \A h \in DOMAIN hilos :
                   hilos[h] = "while" => hilos'[h] \in {"while", "fin"}
             /\ device_states' = device_states
             /\ ultimo_ciclo' = ultimo_ciclo]_vars
    /\ (device_monitor /\ ~monitoring) ~> (monitoring \/ HilosVivos = {})

\* The thread started at initialization ran an iteration, stop_monitoring
\* was called, and the thread has returned.
C33_Witness ==
    /\ device_monitor
    /\ ~monitoring
    /\ hilos = <<"fin">>
    /\ ultimo_ciclo.hilo = 1
    /\ ~ultimo_ciclo.fallo

C35_SimuladorSinBroker ==
    (app_mqtt_client /\ conexion = "cerrada" /\ suscripciones = {}
        /\ ~is_connected)
        => dummy_running

\* C36: at most one thread is inside HiveMQClient.start() at any time.
C36_UnSoloStart == EnStart <= 1

\* C37: a run of the flow-sensor handler, whatever its payload, requests no
\* gate command and no node status, attempts no notification, appends no
\* reading, and leaves the gate node status, the notifications, the
\* readings log and the published messages as they were.
C37_FlujoSinActuacion ==
    ultima.fuente = "flujo" =>
        /\ Len(ultima.llamadas) = 1
        /\ ultima.llamadas[1].cmds = <<>>
        /\ ultima.llamadas[1].nodos = <<>>
        /\ ultima.llamadas[1].notif_intentos = 0
        /\ ultima.persistidos = 0
        /\ SinEfecto

\* A flow message with a numeric payload was processed right after a
\* water-level message that stored a reading, opened the gate node and
\* created a notification.
C37_Witness ==
    /\ ultima.fuente = "flujo"
    /\ ultima.payload = "12"
    /\ ultima.flow_value = 12
    /\ anterior.fuente = "mqtt"
    /\ Len(niveles) = 1
    /\ Len(notificaciones) = 1
    /\ nodo_estatus = 1

\* C38: a handler run for a message on status/sistema, control/valvula*,
\* control/compuerta or control/releb* hands nothing to the broker
\* transport.
C38_EstadoNoPublica ==
    [][(/\ n_lecturas' = n_lecturas + 1
        /\ ultima'.fuente = "otro"
        /\ Manejador(ultima'.topic) # "no reconocido")
          => published' = published]_vars

\* The command ON for valve1 was published by the command route and then
\* arrived back on control/valvula1; it is still the only message
\* published.
C38_Witness ==
    /\ ultima.fuente = "otro"
    /\ ultima.topic = "control/valvula1"
    /\ ultima.payload = "ON"
    /\ ultima.pub_antes = 1
    /\ ultimo_cmd.success
    /\ published = <<[topic |-> "control/valvula1", payload |-> "ON"]>>

\* C39: a bulk request whose list holds one registry-valid (device, command)
\* pair leaves the gate node status as the single-command request for the
\* same pair would leave it from the same state (storage working), and
\* reports success for the pair exactly when the single-command request
\* would.
C39_MasivoComoIndividual ==
    [][(/\ n_comandos' = n_comandos + 1
        /\ ultimo_cmd'.masivo
        /\ Len(ultimo_cmd'.pedidos) = 1
        /\ validate_device_command(ultimo_cmd'.pedidos[1].device,
                                   ultimo_cmd'.pedidos[1].command).valid)
          => LET res == handle_single_command(ultimo_cmd'.pedidos[1].device,
                            ultimo_cmd'.pedidos[1].command, FALSE)
             IN  /\ nodo_estatus' = res.estatus
                 /\ (ultimo_cmd'.results[1].status = "success")
                        = res.success]_vars

====
